---- MODULE Spec2Model ----
(***************************************************************************)
(* A model of pyopenreil/REIL.py: the REIL instruction record and its      *)
(* encoding, the fallthrough/branch successor functions, the symbolic      *)
(* expression equality, the in-memory instruction store, the translating   *)
(* cache and the iterative CFG traversal.                                  *)
(*                                                                         *)
(* Python's None is modelled as the empty sequence <<>> and a present      *)
(* value v of an optional attribute as <<v>>, so that optional attributes  *)
(* stay comparable.                                                        *)
(***************************************************************************)
EXTENDS Integers, Sequences, FiniteSets, TLC

VARIABLES
    \* ---- Insn objects handled by the pure-function specifications
    insn,       \* the instruction object under test
    data,       \* insn.serialize()
    insn2,      \* Insn(data): the result of unserialize on a fresh object
    data2,      \* insn2.serialize()
    succ,       \* result of insn.next() / insn.jcc_loc()
    ppc,        \* position of the pure-function driver
    exp_a,      \* symbolic value a
    exp_b,      \* symbolic value b
    eq_res,     \* results of the == comparisons on expressions over a and b
    \* ---- storage
    items,      \* CodeStorageMem.items: (addr, inum) -> raw record
    reader,     \* CodeStorageTranslator.reader: None or a ReaderRaw
    code,       \* what the Lifter returns per address (its raw records)
    ncalls,     \* number of storage calls made so far
    last,       \* the storage call that just returned, and its outcome
    filled,     \* history: per address, the expansion its cache fill returned
    touched,    \* history: filled addresses a put_insn has since overwritten
    \* ---- CfgParser.traverse
    mode,       \* which parser class runs the traversal
    start,      \* the argument of traverse
    stack,      \* work stack of block start addresses
    stack_top,  \* address of the run being walked
    nodes,      \* visited node keys, in visit order
    edges,      \* visited edge keys, in visit order
    insn_list,  \* the run returned by _get_bb(stack_top)
    bb,         \* instructions of the block being collected
    idx,        \* position of the for loop in insn_list
    pc,         \* position inside traverse
    ret,        \* what traverse returned (or the exception it raised)
    calls,      \* history: the visitor invocations, in order, each with the
                \* lhs, rhs = insn.next(), insn.jcc_loc() of its terminator
    pops,       \* history: number of stack.pop() calls that returned
    func_list,  \* _CfgParser.insn_list
    steps       \* history: number of steps traverse has taken

pureVars == <<insn, data, insn2, data2, succ, ppc, exp_a, exp_b, eq_res>>
storeVars == <<items, reader, code>>
cacheVars == <<ncalls, last, filled, touched>>
travVars == <<mode, start, stack, stack_top, nodes, edges, insn_list, bb, idx,
              pc, ret, calls, pops, func_list, steps>>

vars == <<pureVars, storeVars, cacheVars, travVars>>

None == <<>>
Some(v) == <<v>>

\* ------------------------------------------------------------------------
\* Program constants
\* ------------------------------------------------------------------------
IOPT_CALL == 1
IOPT_RET == 2
IOPT_BB_END == 4
IOPT_ASM_END == 8

MAX_INST_LEN == 30

\* len(REIL_INSN)
NumInsn == 32

I_NONE == 0
I_JCC == 1
I_STR == 2
I_STM == 3
I_LDM == 4
I_ADD == 5
I_SUB == 6
I_NEG == 7
I_MUL == 8
I_SHL == 14
I_AND == 18
I_OR == 19
I_XOR == 20
I_CAST_S == 31

U1 == 0
U8 == 1
U16 == 2
U32 == 3
U64 == 4

A_NONE == 0
A_REG == 1
A_TEMP == 2
A_CONST == 3

\* ------------------------------------------------------------------------
\* Bit operations on non-negative integers
\* ------------------------------------------------------------------------
RECURSIVE BitAnd(_, _)
BitAnd(x, y) ==
    IF x = 0 \/ y = 0 THEN 0
    ELSE (IF x % 2 = 1 /\ y % 2 = 1 THEN 1 ELSE 0)
         + 2 * BitAnd(x \div 2, y \div 2)

\* val & (2^n - 1), computed bit by bit so that the 32 and 64 bit masks need
\* no number beyond 32 bits
RECURSIVE LowBits(_, _)
LowBits(x, n) ==
    IF n = 0 \/ x = 0 THEN 0
    ELSE (x % 2) + 2 * LowBits(x \div 2, n - 1)

\* ------------------------------------------------------------------------
\* class Arg
\* ------------------------------------------------------------------------
\* Arg.__init__(t, size, name, val)
Arg(t, size, name, val) ==
    [type |-> IF t = None THEN A_NONE ELSE t[1],
     size |-> size,
     name |-> name,
     val  |-> IF val = None THEN 0 ELSE val[1]]

\* Arg.get_val: None (<<>>) when the size is none of the five widths
Arg_get_val(self) ==
    IF self.size = Some(U1) THEN Some(IF LowBits(self.val, 1) = 0 THEN 0 ELSE 1)
    ELSE IF self.size = Some(U8) THEN Some(LowBits(self.val, 8))
    ELSE IF self.size = Some(U16) THEN Some(LowBits(self.val, 16))
    ELSE IF self.size = Some(U32) THEN Some(LowBits(self.val, 32))
    ELSE IF self.size = Some(U64) THEN Some(LowBits(self.val, 64))
    ELSE None

\* Arg.serialize, with a constant's value written masked instead of raw
Arg_serialize_masked(self) ==
    IF self.type \in {A_REG, A_TEMP} THEN <<self.type, self.size[1], self.name[1]>>
    ELSE IF self.type = A_NONE THEN <<>>
    ELSE <<self.type, self.size[1], Arg_get_val(self)[1]>>

\* Arg.serialize
Arg_serialize(self) ==
    IF self.type \in {A_REG, A_TEMP} THEN <<self.type, self.size[1], self.name[1]>>
    ELSE IF self.type = A_NONE THEN <<>>
    ELSE <<self.type, self.size[1], self.val>>

\* Arg.unserialize(data) applied to the object self: the resulting object
\* and the returned flag
Arg_unserialize(self, d) ==
    IF Len(d) = 3 THEN
        LET s1 == [self EXCEPT !.type = d[1], !.size = Some(d[2])] IN
        IF d[2] \notin {U1, U8, U16, U32, U64} THEN [ok |-> FALSE, arg |-> s1]
        ELSE IF d[1] = A_REG THEN [ok |-> TRUE, arg |-> [s1 EXCEPT !.name = Some(d[3])]]
        ELSE IF d[1] = A_TEMP THEN [ok |-> TRUE, arg |-> [s1 EXCEPT !.name = Some(d[3])]]
        ELSE IF d[1] = A_CONST THEN [ok |-> TRUE, arg |-> [s1 EXCEPT !.val = d[3]]]
        ELSE [ok |-> FALSE, arg |-> s1]
    ELSE IF Len(d) = 0 THEN
        [ok |-> TRUE,
         arg |-> [type |-> A_NONE, size |-> None, name |-> None, val |-> 0]]
    ELSE [ok |-> FALSE, arg |-> self]

\* Arg.is_var
Arg_is_var(self) == self.type = A_REG \/ self.type = A_TEMP

\* ------------------------------------------------------------------------
\* class Insn
\* ------------------------------------------------------------------------
\* raw record accessors
Insn_addr(d) == d[1][1]
Insn_size(d) == d[1][2]
Insn_inum(d) == d[2]
Insn_op(d) == d[3]
Insn_args(d) == d[4]
Insn_flags(d) == d[5]

\* the attributes Insn.__init__ sets before any unserialize; size and flags
\* are not attributes yet (None here)
Insn_init ==
    [addr |-> 0, inum |-> 0, ir_addr |-> <<>>, size |-> None, flags |-> None,
     op |-> I_NONE,
     a |-> Arg(None, None, None, None),
     b |-> Arg(None, None, None, None),
     c |-> Arg(None, None, None, None)]

\* Insn.serialize
Insn_serialize(self) ==
    << <<self.addr, self.size[1]>>, self.inum, self.op,
       <<Arg_serialize(self.a), Arg_serialize(self.b), Arg_serialize(self.c)>>,
       self.flags[1] >>

\* Insn.unserialize, the operand c: s is the object so far
Insn_unserialize_c(s, args) ==
    LET rc == Arg_unserialize(s.c, args[3]) IN
    [raised |-> ~rc.ok, insn |-> [s EXCEPT !.c = rc.arg]]

\* Insn.unserialize, the operand b and what follows it
Insn_unserialize_b(s, args) ==
    LET rb == Arg_unserialize(s.b, args[2]) IN
    IF ~rb.ok THEN [raised |-> TRUE, insn |-> [s EXCEPT !.b = rb.arg]]
    ELSE Insn_unserialize_c([s EXCEPT !.b = rb.arg], args)

\* Insn.unserialize, the operand a and what follows it
Insn_unserialize_a(s, args) ==
    LET ra == Arg_unserialize(s.a, args[1]) IN
    IF ~ra.ok THEN [raised |-> TRUE, insn |-> [s EXCEPT !.a = ra.arg]]
    ELSE Insn_unserialize_b([s EXCEPT !.a = ra.arg], args)

\* Insn.unserialize(data) on the object self: raised = ParseError
Insn_unserialize(self, d) ==
    LET s1 == [self EXCEPT !.addr = Insn_addr(d), !.size = Some(Insn_size(d)),
                           !.inum = Insn_inum(d), !.flags = Some(Insn_flags(d)),
                           !.ir_addr = <<Insn_addr(d), Insn_inum(d)>>,
                           !.op = Insn_op(d)]
    IN  IF s1.op > NumInsn - 1 THEN [raised |-> TRUE, insn |-> s1]
        ELSE IF Len(Insn_args(d)) # 3 THEN [raised |-> TRUE, insn |-> s1]
        ELSE Insn_unserialize_a(s1, Insn_args(d))

\* Insn(serialized): construction from a raw record
Insn(d) == Insn_unserialize(Insn_init, d)

\* Insn.have_flag
have_flag(self, val) == BitAnd(self.flags[1], val) # 0

\* Insn.next with the ASM_END test ahead of the RET test
Insn_next_asm_end_first(self) ==
    IF have_flag(self, IOPT_ASM_END) THEN Some(<<self.addr + self.size[1], 0>>)
    ELSE IF have_flag(self, IOPT_RET) THEN None
    ELSE IF self.op = I_JCC /\ self.a.type = A_CONST /\ Arg_get_val(self.a) # Some(0)
            /\ ~have_flag(self, IOPT_CALL) THEN None
    ELSE Some(<<self.addr, self.inum + 1>>)

\* Insn.next: None or Some(<<addr, inum>>)
Insn_next(self) ==
    IF have_flag(self, IOPT_RET) THEN None
    ELSE IF self.op = I_JCC /\ self.a.type = A_CONST /\ Arg_get_val(self.a) # Some(0)
            /\ ~have_flag(self, IOPT_CALL) THEN None
    ELSE IF have_flag(self, IOPT_ASM_END) THEN Some(<<self.addr + self.size[1], 0>>)
    ELSE Some(<<self.addr, self.inum + 1>>)

\* Insn.jcc_loc
Insn_jcc_loc(self) ==
    IF self.op = I_JCC /\ self.c.type = A_CONST THEN Some(<<Arg_get_val(self.c)[1], 0>>)
    ELSE None

\* ------------------------------------------------------------------------
\* Values the parts of the state take while a specification does not use them
\* ------------------------------------------------------------------------
IdlePure ==
    /\ insn = None /\ data = None /\ insn2 = None /\ data2 = None
    /\ succ = None /\ ppc = "idle"
    /\ exp_a = None /\ exp_b = None /\ eq_res = None

IdleStore == items = <<>> /\ reader = None /\ code = <<>>

IdleCache == ncalls = 0 /\ last = None /\ filled = <<>> /\ touched = {}

IdleTrav ==
    /\ mode = "idle" /\ start = 0 /\ stack = <<>> /\ stack_top = 0
    /\ nodes = <<>> /\ edges = <<>> /\ insn_list = <<>> /\ bb = <<>> /\ idx = 0
    /\ pc = "idle" /\ ret = None /\ calls = <<>> /\ pops = 0 /\ func_list = <<>>
    /\ steps = 0

\* ------------------------------------------------------------------------
\* Instruction objects the pure-function specifications draw their inputs from
\* ------------------------------------------------------------------------
RawVals == {0, 1, 256, 511, 65536}
Widths == {U1, U8, U16, U32, U64}
Opcodes == 0 .. (NumInsn - 1)
FlagSets == 0 .. (IOPT_CALL + IOPT_RET + IOPT_BB_END + IOPT_ASM_END)

ArgNone == Arg(None, None, None, None)
ArgReg(n, w) == Arg(Some(A_REG), Some(w), Some(n), None)
ArgTemp(n, w) == Arg(Some(A_TEMP), Some(w), Some(n), None)
ArgConst(v, w) == Arg(Some(A_CONST), Some(w), None, Some(v))

ConstArgs == {ArgConst(v, w) : v \in RawVals, w \in Widths}
VarArgs == {ArgReg("R_EAX", U32), ArgTemp("V_00", U8)}

\* (address, machine instruction size, subindex)
Places == {<<0, 1, 0>>, <<256, 5, 0>>, <<256, 5, 2>>, <<4096, 2, 1>>}

MkInsn(pl, op, a, b, c, fl) ==
    [addr |-> pl[1], inum |-> pl[3], ir_addr |-> <<pl[1], pl[3]>>,
     size |-> Some(pl[2]), flags |-> Some(fl), op |-> op, a |-> a, b |-> b, c |-> c]

\* ------------------------------------------------------------------------
\* SpecNext: Insn.next and Insn.jcc_loc applied to one instruction
\* ------------------------------------------------------------------------
NextInputs ==
    {MkInsn(pl, op, a, ArgNone, c, fl) :
        pl \in Places, op \in Opcodes, a \in {ArgNone} \cup VarArgs \cup ConstArgs,
        c \in {ArgNone, ArgConst(4096, U32)}, fl \in FlagSets}

InitNext ==
    /\ insn \in NextInputs
    /\ data = None /\ insn2 = None /\ data2 = None /\ succ = None /\ ppc = "init"
    /\ exp_a = None /\ exp_b = None /\ eq_res = None
    /\ IdleStore /\ IdleCache /\ IdleTrav

CallNext ==
    /\ ppc = "init"
    /\ succ' = Insn_next(insn)
    /\ ppc' = "next"
    /\ UNCHANGED <<insn, data, insn2, data2, exp_a, exp_b, eq_res>>
    /\ UNCHANGED <<storeVars, cacheVars, travVars>>

CallJccLoc ==
    /\ ppc = "init"
    /\ succ' = Insn_jcc_loc(insn)
    /\ ppc' = "jcc_loc"
    /\ UNCHANGED <<insn, data, insn2, data2, exp_a, exp_b, eq_res>>
    /\ UNCHANGED <<storeVars, cacheVars, travVars>>

NextNext == CallNext \/ CallJccLoc

SpecNext == InitNext /\ [][NextNext]_vars

\* ---- the successor table, stated from the instruction's fields alone
FlagIsSet(fl, bit) == (fl \div bit) % 2 = 1

\* the value of a constant operand truncated to its width; raw values of the
\* model are below 2^31, so 32 and 64 bit truncation keeps them
Truncated(arg) ==
    IF arg.size = Some(U1) THEN arg.val % 2
    ELSE IF arg.size = Some(U8) THEN arg.val % 256
    ELSE IF arg.size = Some(U16) THEN arg.val % 65536
    ELSE arg.val

IsRet(i) == FlagIsSet(i.flags[1], IOPT_RET)
IsConstJump(i) ==
    /\ i.op = I_JCC
    /\ i.a.type = A_CONST
    /\ Truncated(i.a) # 0
    /\ ~FlagIsSet(i.flags[1], IOPT_CALL)
IsAsmEnd(i) == FlagIsSet(i.flags[1], IOPT_ASM_END)

\* C9: Insn.next() is the four-rule priority table: RET gives no successor;
\* else a conditional jump on a constant with nonzero width-masked value and
\* no CALL flag gives none; else ASM_END gives (address + size, 0); else
\* (address, subindex + 1). RET overrides ASM_END, and a CALL-flagged
\* constant-condition jump keeps its fallthrough successor.
C9_NextIsPriorityTable ==
    ppc = "next" =>
        /\ IsRet(insn) => succ = None
        /\ (~IsRet(insn) /\ IsConstJump(insn)) => succ = None
        /\ (~IsRet(insn) /\ ~IsConstJump(insn) /\ IsAsmEnd(insn)) =>
                succ = Some(<<insn.addr + insn.size[1], 0>>)
        /\ (~IsRet(insn) /\ ~IsConstJump(insn) /\ ~IsAsmEnd(insn)) =>
                succ = Some(<<insn.addr, insn.inum + 1>>)
        /\ (IsRet(insn) /\ IsAsmEnd(insn)) => succ = None
        /\ (~IsRet(insn) /\ insn.op = I_JCC /\ insn.a.type = A_CONST
              /\ Truncated(insn.a) # 0 /\ FlagIsSet(insn.flags[1], IOPT_CALL)) =>
                succ # None

\* next() was applied to an instruction carrying both RET and ASM_END
C9_Witness ==
    /\ ppc = "next"
    /\ IsRet(insn) /\ IsAsmEnd(insn) /\ succ = None
    /\ insn.addr = 256

\* ------------------------------------------------------------------------
\* SpecSer: serialize, unserialize into a fresh Insn, serialize again
\* ------------------------------------------------------------------------
SerArgs ==
    {ArgNone, ArgReg("R_EAX", U32), ArgTemp("V_00", U1),
     ArgConst(0, U1), ArgConst(511, U8), ArgConst(65536, U64)}

SerInputs ==
    {MkInsn(pl, op, a, b, c, fl) :
        pl \in Places, op \in {I_NONE, I_JCC, I_ADD, I_CAST_S},
        a \in SerArgs, b \in SerArgs, c \in SerArgs,
        fl \in {0, IOPT_CALL + IOPT_BB_END, IOPT_RET + IOPT_BB_END + IOPT_ASM_END}}

InitSer ==
    /\ insn \in SerInputs
    /\ data = None /\ insn2 = None /\ data2 = None /\ succ = None /\ ppc = "init"
    /\ exp_a = None /\ exp_b = None /\ eq_res = None
    /\ IdleStore /\ IdleCache /\ IdleTrav

Serialize ==
    /\ ppc = "init"
    /\ data' = Insn_serialize(insn)
    /\ ppc' = "serialized"
    /\ UNCHANGED <<insn, insn2, data2, succ, exp_a, exp_b, eq_res>>
    /\ UNCHANGED <<storeVars, cacheVars, travVars>>

Unserialize ==
    /\ ppc = "serialized"
    /\ insn2' = Insn(data)
    /\ ppc' = "unserialized"
    /\ UNCHANGED <<insn, data, data2, succ, exp_a, exp_b, eq_res>>
    /\ UNCHANGED <<storeVars, cacheVars, travVars>>

Reserialize ==
    /\ ppc = "unserialized"
    /\ ~insn2.raised
    /\ data2' = Insn_serialize(insn2.insn)
    /\ ppc' = "reserialized"
    /\ UNCHANGED <<insn, data, insn2, succ, exp_a, exp_b, eq_res>>
    /\ UNCHANGED <<storeVars, cacheVars, travVars>>

NextSer == Serialize \/ Unserialize \/ Reserialize

SpecSer == InitSer /\ [][NextSer]_vars

SameOperand(x, y) ==
    /\ x.type = y.type
    /\ x.size = y.size
    /\ x.name = y.name
    /\ x.val = y.val
    /\ Arg_get_val(x) = Arg_get_val(y)

\* C8: serialize followed by unserialize yields an instruction with the same
\* address, size, subindex, opcode, flags and, per operand, the same kind,
\* width, name and value; serializing the result gives the original record.
C8_RoundTrip ==
    /\ ppc \in {"unserialized", "reserialized"} =>
        /\ ~insn2.raised
        /\ insn2.insn.addr = insn.addr
        /\ insn2.insn.size = insn.size
        /\ insn2.insn.inum = insn.inum
        /\ insn2.insn.op = insn.op
        /\ insn2.insn.flags = insn.flags
        /\ SameOperand(insn2.insn.a, insn.a)
        /\ SameOperand(insn2.insn.b, insn.b)
        /\ SameOperand(insn2.insn.c, insn.c)
    /\ ppc = "reserialized" => data2 = data

\* a round trip of an instruction holding a constant wider than its width,
\* a register and an absent operand has completed
C8_Witness ==
    /\ ppc = "reserialized"
    /\ insn.a = ArgConst(511, U8)
    /\ insn.b = ArgReg("R_EAX", U32)
    /\ insn.c = ArgNone
    /\ insn.flags = Some(IOPT_RET + IOPT_BB_END + IOPT_ASM_END)

\* ------------------------------------------------------------------------
\* Symbolic values: class SymVal and its subclasses, as tagged tuples
\*   <<"SymAny">>, <<"SymVal", name, size>>, <<"SymPtr", inner>>,
\*   <<"SymConst", value, size>>, <<"SymExp", op, a, b>>; <<"NoneType">> is
\*   Python's None in an operand position
\* ------------------------------------------------------------------------
PyNone == <<"NoneType">>
SymAny == <<"SymAny">>
SymVal(val, size) == <<"SymVal", val, size>>
SymPtr(val) == <<"SymPtr", val>>
SymConst(val, size) == <<"SymConst", val, size>>
SymExp(op, a, b) == <<"SymExp", op, a, b>>

Class(x) == x[1]

\* SymExp.commutative
commutative == {I_ADD, I_SUB, I_AND, I_XOR, I_OR}

RECURSIVE PyEq(_, _)
RECURSIVE Sym__eq__(_, _)

\* self.__eq__(other), dispatched on the class of self
Sym__eq__(self, other) ==
    IF Class(self) = "SymAny" THEN TRUE
    ELSE IF Class(other) = "SymAny" THEN TRUE
    ELSE IF Class(other) # Class(self) THEN FALSE
    ELSE IF Class(self) = "SymVal" THEN self[2] = other[2]
    ELSE IF Class(self) = "SymPtr" THEN PyEq(self[2], other[2])
    ELSE IF Class(self) = "SymConst" THEN self[2] = other[2]
    ELSE \* SymExp
        IF self[2] = other[2] /\ self[2] \in commutative THEN
            \/ (PyEq(self[3], other[3]) /\ PyEq(self[4], other[4]))
            \/ (PyEq(self[4], other[3]) /\ PyEq(self[3], other[4]))
        ELSE
            /\ self[2] = other[2]
            /\ PyEq(self[3], other[3])
            /\ PyEq(self[4], other[4])

\* Python's x == y: the left operand's __eq__, or the right operand's when
\* the left one is None
PyEq(x, y) ==
    IF Class(x) = "NoneType" THEN
        IF Class(y) = "NoneType" THEN TRUE ELSE Sym__eq__(y, x)
    ELSE Sym__eq__(x, y)

SymAtoms ==
    {SymAny, SymVal("eax", U32), SymVal("eax", U8), SymVal("ebx", U32),
     SymConst(5, U32), SymConst(7, U32)}

SymValues ==
    SymAtoms
    \cup {SymPtr(x) : x \in SymAtoms}
    \cup {SymExp(op, x, y) : op \in {I_ADD, I_SUB}, x \in SymAtoms, y \in SymAtoms}
    \cup {SymExp(I_NEG, x, PyNone) : x \in {SymVal("eax", U32), SymConst(5, U32)}}

\* ------------------------------------------------------------------------
\* SpecSym: comparisons of expressions built over two symbolic values
\* ------------------------------------------------------------------------
InitSym ==
    /\ exp_a \in SymValues
    /\ exp_b \in SymValues
    /\ eq_res = None
    /\ ppc = "init"
    /\ insn = None /\ data = None /\ insn2 = None /\ data2 = None /\ succ = None
    /\ IdleStore /\ IdleCache /\ IdleTrav

\* a == b and b == a
CompareOperands ==
    /\ ppc = "init"
    /\ eq_res' = <<PyEq(exp_a, exp_b), PyEq(exp_b, exp_a)>>
    /\ ppc' = "operands"
    /\ UNCHANGED <<insn, data, insn2, data2, succ, exp_a, exp_b>>
    /\ UNCHANGED <<storeVars, cacheVars, travVars>>

\* SymExp(op, a, b) == SymExp(op, b, a) and the same with the sides swapped
CompareSwapped(op) ==
    /\ ppc = "operands"
    /\ eq_res' = eq_res \o <<op,
                             PyEq(SymExp(op, exp_a, exp_b), SymExp(op, exp_b, exp_a)),
                             PyEq(SymExp(op, exp_b, exp_a), SymExp(op, exp_a, exp_b))>>
    /\ ppc' = "swapped"
    /\ UNCHANGED <<insn, data, insn2, data2, succ, exp_a, exp_b>>
    /\ UNCHANGED <<storeVars, cacheVars, travVars>>

NextSym == CompareOperands \/ \E op \in {I_ADD, I_SUB, I_MUL, I_XOR} : CompareSwapped(op)

SpecSym == InitSym /\ [][NextSym]_vars

\* a and b compare unequal and neither is the wildcard
DistinctNonWildcards ==
    /\ Class(exp_a) # "SymAny" /\ Class(exp_b) # "SymAny"
    /\ ~eq_res[1] /\ ~eq_res[2]

\* C7: for a and b not equal to each other, neither a Wildcard,
\* Expression(SUB, a, b) compares unequal to Expression(SUB, b, a), while
\* Expression(ADD, a, b) compares equal to Expression(ADD, b, a).
C7_SubOrderSensitive ==
    (ppc = "swapped" /\ DistinctNonWildcards) =>
        /\ eq_res[3] = I_SUB => (~eq_res[4] /\ ~eq_res[5])
        /\ eq_res[3] = I_ADD => (eq_res[4] /\ eq_res[5])

\* ------------------------------------------------------------------------
\* class ReaderRaw: a reader is None or Some([addr, len]), where len is
\* len(self.data); a read returns None or Some of the slice it returns
\* ------------------------------------------------------------------------
Min(x, y) == IF x < y THEN x ELSE y

\* ReaderRaw.read
ReaderRaw_read(self, addr, size) ==
    IF addr < self.addr \/ addr >= self.addr + self.len THEN None
    ELSE Some([off |-> addr - self.addr,
               len |-> Min(size, self.len - (addr - self.addr))])

\* ReaderRaw.read_insn
ReaderRaw_read_insn(self, addr) == ReaderRaw_read(self, addr, MAX_INST_LEN)

\* ------------------------------------------------------------------------
\* class CodeStorageMem: items is a function from keys <<addr, inum>> to raw
\* records. A call returns [exc, val]: exc is None or Some(<<name, addr>>).
\* ------------------------------------------------------------------------
Returned(v) == [exc |-> None, val |-> v]
Raised(name, addr) == [exc |-> Some(<<name, addr>>), val |-> None]

\* CodeStorageMem._get_key
Mem_get_key(d) == <<Insn_addr(d), Insn_inum(d)>>

\* CodeStorageMem._put_insn
Mem__put_insn(its, d) ==
    [k \in (DOMAIN its) \cup {Mem_get_key(d)} |->
        IF k = Mem_get_key(d) THEN d ELSE its[k]]

\* CodeStorageMem.put_insn: arg is [list |-> TRUE, v |-> sequence of records]
\* or [list |-> FALSE, v |-> record]
RECURSIVE Mem_put_list(_, _)
Mem_put_list(its, seq) ==
    IF seq = <<>> THEN its
    ELSE Mem_put_list(Mem__put_insn(its, Head(seq)), Tail(seq))

Mem_put_insn(its, arg) ==
    IF arg.list THEN Mem_put_list(its, arg.v) ELSE Mem__put_insn(its, arg.v)

RECURSIVE Mem_get_insn_loop(_, _, _, _, _)

\* one turn of the while loop of CodeStorageMem.get_insn, r being what
\* Insn(self.items[(addr, inum)]) gave
Mem_get_insn_turn(its, addr, inum, query_single, acc, r) ==
    IF r.raised THEN Raised("ParseError", r.insn.addr)
    ELSE IF query_single THEN Returned(r.insn)
    ELSE IF have_flag(r.insn, IOPT_ASM_END) THEN Returned(Append(acc, r.insn))
    ELSE Mem_get_insn_loop(its, addr, inum + 1, query_single, Append(acc, r.insn))

\* the while loop of CodeStorageMem.get_insn from subindex inum on
Mem_get_insn_loop(its, addr, inum, query_single, acc) ==
    IF <<addr, inum>> \notin DOMAIN its THEN Raised("KeyError", addr)
    ELSE Mem_get_insn_turn(its, addr, inum, query_single, acc,
                           Insn(its[<<addr, inum>>]))

\* CodeStorageMem.get_insn(addr, inum): inum is None or Some(n);
\* query_single, inum = (False, 0) if inum is None else (True, inum)
Mem_get_insn(its, addr, inum) ==
    Mem_get_insn_loop(its, addr, IF inum = None THEN 0 ELSE inum[1],
                      inum # None, <<>>)

\* ------------------------------------------------------------------------
\* class CodeStorageTranslator over a CodeStorageMem. A call returns
\* [exc, val, items, lifted]: the outcome, the underlying store afterwards
\* and the addresses the Lifter was invoked for during the call, in order.
\* ------------------------------------------------------------------------
\* translator.to_reil(data, addr = addr): the records of the program at addr
to_reil(prog, bytes, addr) == prog[addr]

\* CodeStorageTranslator.get_insn without the test of what the Reader returned
Tr_get_insn_ignoring_read_failure(its, rd, prog, addr, inum) ==
    LET r == Mem_get_insn(its, addr, inum) IN
    IF r.exc = None \/ r.exc[1][1] # "KeyError" THEN
        [exc |-> r.exc, val |-> r.val, items |-> its, lifted |-> <<>>]
    ELSE IF rd = None THEN
        [exc |-> Some(<<"ReadError", addr>>), val |-> None, items |-> its,
         lifted |-> <<>>]
    ELSE
        LET its2 == Mem_put_list(its, to_reil(prog, None, addr))
            r2 == Mem_get_insn(its2, addr, inum)
        IN  [exc |-> r2.exc, val |-> r2.val, items |-> its2, lifted |-> <<addr>>]

\* CodeStorageTranslator.get_insn that never asks the store first
Tr_get_insn_always_translates(its, rd, prog, addr, inum) ==
    IF rd = None THEN
        [exc |-> Some(<<"ReadError", addr>>), val |-> None, items |-> its,
         lifted |-> <<>>]
    ELSE
        LET bytes == ReaderRaw_read_insn(rd[1], addr) IN
        IF bytes = None THEN
            [exc |-> Some(<<"ReadError", addr>>), val |-> None, items |-> its,
             lifted |-> <<>>]
        ELSE
            LET its2 == Mem_put_list(its, to_reil(prog, bytes[1], addr))
                r2 == Mem_get_insn(its2, addr, inum)
            IN  [exc |-> r2.exc, val |-> r2.val, items |-> its2, lifted |-> <<addr>>]

\* what a call gives back: the outcome r of the store query it ends with, the
\* store afterwards and the addresses lifted
Tr_result(r, its, lifted) ==
    [exc |-> r.exc, val |-> r.val, items |-> its, lifted |-> lifted]

\* raise(ReadError(addr))
Tr_read_failure(its, addr) ==
    [exc |-> Some(<<"ReadError", addr>>), val |-> None, items |-> its,
     lifted |-> <<>>]

\* `return self.storage.get_insn(addr, inum = inum)` once the translated
\* instructions are in the store its2
Tr_get_insn_requery(its2, addr, inum) ==
    Tr_result(Mem_get_insn(its2, addr, inum), its2, <<addr>>)

\* CodeStorageTranslator.get_insn from `data = self.reader.read_insn(addr)`
\* on: bytes is what the Reader returned
Tr_get_insn_translate(its, prog, addr, inum, bytes) ==
    IF bytes = None THEN Tr_read_failure(its, addr)
    ELSE Tr_get_insn_requery(Mem_put_list(its, to_reil(prog, bytes[1], addr)),
                             addr, inum)

\* CodeStorageTranslator.get_insn after the first store query gave r
Tr_get_insn_queried(r, its, rd, prog, addr, inum) ==
    IF r.exc = None \/ r.exc[1][1] # "KeyError" THEN Tr_result(r, its, <<>>)
    ELSE IF rd = None THEN Tr_read_failure(its, addr)
    ELSE Tr_get_insn_translate(its, prog, addr, inum,
                               ReaderRaw_read_insn(rd[1], addr))

\* CodeStorageTranslator.get_insn
Tr_get_insn(its, rd, prog, addr, inum) ==
    Tr_get_insn_queried(Mem_get_insn(its, addr, inum), its, rd, prog, addr, inum)

\* CodeStorageTranslator.put_insn
Tr_put_insn(its, arg) == Mem_put_insn(its, arg)

\* ------------------------------------------------------------------------
\* Raw records as the Lifter produces them
\* ------------------------------------------------------------------------
SReg(n, w) == <<A_REG, w, n>>
SConst(v, w) == <<A_CONST, w, v>>

Rec(addr, size, inum, op, a, b, c, fl) == << <<addr, size>>, inum, op, <<a, b, c>>, fl >>

\* one machine instruction that moves a register: no block end
T_plain(addr) ==
    << Rec(addr, 1, 0, I_STR, SReg("R_EAX", U32), <<>>, SReg("R_ECX", U32),
           IOPT_ASM_END) >>

\* a conditional jump to t
T_jcc(addr, t) ==
    << Rec(addr, 1, 0, I_JCC, SReg("R_ZF", U1), <<>>, SConst(t, U32),
           IOPT_BB_END + IOPT_ASM_END) >>

\* an unconditional jump to t
T_jmp(addr, t) ==
    << Rec(addr, 1, 0, I_JCC, SConst(1, U1), <<>>, SConst(t, U32),
           IOPT_BB_END + IOPT_ASM_END) >>

\* a return
T_ret(addr) ==
    << Rec(addr, 1, 0, I_JCC, SConst(1, U1), <<>>, SReg("V_01", U32),
           IOPT_RET + IOPT_BB_END + IOPT_ASM_END) >>

\* an instruction whose expansion holds a conditional jump to t in its
\* middle: a block ends inside the machine instruction
T_split(addr, t) ==
    << Rec(addr, 1, 0, I_JCC, SReg("R_ZF", U1), <<>>, SConst(t, U32), IOPT_BB_END),
       Rec(addr, 1, 1, I_STR, SReg("R_EAX", U32), <<>>, SReg("R_ECX", U32),
           IOPT_ASM_END) >>

\* an instruction whose expansion holds an unconditional jump to t in its
\* middle: the block that ends there has no fallthrough successor
T_jmpsplit(addr, t) ==
    << Rec(addr, 1, 0, I_JCC, SConst(1, U1), <<>>, SConst(t, U32), IOPT_BB_END),
       Rec(addr, 1, 1, I_STR, SReg("R_EAX", U32), <<>>, SReg("R_ECX", U32),
           IOPT_ASM_END) >>

\* ------------------------------------------------------------------------
\* SpecCache: get_insn and put_insn calls on a CodeStorageTranslator that
\* starts with an empty store
\* ------------------------------------------------------------------------
CacheAddrs == 2
MaxCalls == 3

CacheAddrSet == 0 .. (CacheAddrs - 1)

\* the expansions the Lifter returns, per address
CachePrograms ==
    {p \in [CacheAddrSet -> {"plain", "split"}] : TRUE}

CacheCode(p) ==
    [a \in CacheAddrSet |-> IF p[a] = "plain" THEN T_plain(a) ELSE T_split(a, 0)]

CacheReaders ==
    {None, Some([addr |-> 0, len |-> CacheAddrs]), Some([addr |-> 1, len |-> 1])}

\* what put_insn is called with
PutArgs(a) ==
    {[list |-> FALSE,
      v |-> Rec(a, 1, 0, I_STR, SReg("R_EBX", U32), <<>>, SReg("R_ECX", U32), 0)],
     [list |-> FALSE,
      v |-> Rec(a, 1, 0, I_JCC, SConst(1, U1), <<>>, SConst(0, U32),
                IOPT_BB_END + IOPT_ASM_END)],
     [list |-> FALSE,
      v |-> Rec(a, 1, 2, I_STR, SReg("R_EBX", U32), <<>>, SReg("R_ECX", U32),
                IOPT_ASM_END)],
     [list |-> TRUE,
      v |-> << Rec(a, 1, 0, I_ADD, SReg("R_EBX", U32), SConst(1, U32),
                   SReg("R_EBX", U32), 0),
               Rec(a, 1, 1, I_STR, SReg("R_EBX", U32), <<>>, SReg("R_ECX", U32),
                   IOPT_ASM_END) >>]}

PutKeys(arg) ==
    IF arg.list THEN {Mem_get_key(arg.v[i]) : i \in 1 .. Len(arg.v)}
    ELSE {Mem_get_key(arg.v)}

\* the keys of the instructions of an expansion
ExpansionKeys(exp) == {<<exp[i].addr, exp[i].inum>> : i \in 1 .. Len(exp)}

NoRecordAt(its, a) == \A k \in DOMAIN its : k[1] # a

InitCache ==
    /\ items = <<>>
    /\ reader \in CacheReaders
    /\ \E p \in CachePrograms : code = CacheCode(p)
    /\ ncalls = 0 /\ last = None /\ filled = <<>> /\ touched = {}
    /\ IdlePure /\ IdleTrav

\* CodeStorageTranslator.get_insn(a, inum)
GetInsn(a, inum) ==
    /\ ncalls < MaxCalls
    /\ \E r \in {Tr_get_insn(items, reader, code, a, inum)} :
       LET fill == /\ inum = None
                   /\ a \notin DOMAIN filled
                   /\ NoRecordAt(items, a)
                   /\ r.lifted # <<>>
                   /\ r.exc = None
       IN  /\ items' = r.items
           /\ last' = [op |-> "get_insn", addr |-> a, inum |-> inum,
                       exc |-> r.exc, val |-> r.val, lifted |-> r.lifted,
                       before |-> items,
                       was_filled |-> a \in DOMAIN filled,
                       was_touched |-> a \in touched]
           /\ filled' = IF fill
                        THEN [x \in (DOMAIN filled) \cup {a} |->
                                 IF x = a THEN r.val ELSE filled[x]]
                        ELSE filled
    /\ ncalls' = ncalls + 1
    /\ UNCHANGED <<reader, code, touched>>
    /\ UNCHANGED <<pureVars, travVars>>

\* CodeStorageTranslator.put_insn(arg)
PutInsn(arg) ==
    /\ ncalls < MaxCalls
    /\ items' = Tr_put_insn(items, arg)
    /\ last' = [op |-> "put_insn", addr |-> 0, inum |-> None,
                exc |-> None, val |-> None, lifted |-> <<>>,
                before |-> items, was_filled |-> FALSE, was_touched |-> FALSE]
    /\ touched' = touched \cup
            {a \in DOMAIN filled : PutKeys(arg) \cap ExpansionKeys(filled[a]) # {}}
    /\ ncalls' = ncalls + 1
    /\ UNCHANGED <<reader, code, filled>>
    /\ UNCHANGED <<pureVars, travVars>>

NextCache ==
    \/ \E a \in CacheAddrSet, inum \in {None, Some(0), Some(1), Some(2)} : GetInsn(a, inum)
    \/ \E a \in CacheAddrSet : \E arg \in PutArgs(a) : PutInsn(arg)

SpecCache == InitCache /\ [][NextCache]_vars

\* the Reader is configured and addr lies inside the bytes it holds
ReaderMaps(a) ==
    /\ reader # None
    /\ reader[1].addr <= a
    /\ a < reader[1].addr + reader[1].len

\* the store before the call could not serve the query
StoreMiss(its, a, inum) == Mem_get_insn(its, a, inum).exc = Some(<<"KeyError", a>>)

LastIsGet == last # None /\ last.op = "get_insn"

\* every record the Lifter returns for a is in the store under its key
HoldsExpansion(its, a) ==
    \A i \in 1 .. Len(code[a]) :
        /\ Mem_get_key(code[a][i]) \in DOMAIN its
        /\ its[Mem_get_key(code[a][i])] = code[a][i]

\* C4 as stated: the first get_insn(addr), with a Reader that maps addr and
\* no record of addr stored yet, invokes the Lifter exactly once for addr and
\* leaves every returned record in the store; any later get_insn(addr), after
\* any sequence of other get_insn/put_insn calls, invokes the Lifter zero
\* further times and returns the same expansion.
C4_AsStated ==
    (LastIsGet /\ last.inum = None) =>
        /\ (NoRecordAt(last.before, last.addr) /\ ReaderMaps(last.addr)) =>
               /\ last.lifted = <<last.addr>>
               /\ last.exc = None
               /\ HoldsExpansion(items, last.addr)
        /\ last.was_filled =>
               /\ last.lifted = <<>>
               /\ last.exc = None
               /\ last.val = filled[last.addr]

\* C4 amended: as above, for later calls between which no put_insn stored a
\* record under a key of the expansion the fill returned for addr.
C4_CacheFill ==
    (LastIsGet /\ last.inum = None) =>
        /\ (NoRecordAt(last.before, last.addr) /\ ReaderMaps(last.addr)) =>
               /\ last.lifted = <<last.addr>>
               /\ last.exc = None
               /\ HoldsExpansion(items, last.addr)
        /\ (last.was_filled /\ ~last.was_touched) =>
               /\ last.lifted = <<>>
               /\ last.exc = None
               /\ last.val = filled[last.addr]

\* a second get_insn(addr) has returned from the cache, after a call that
\* filled addr and a call that stored records of another address
C4_Witness ==
    /\ LastIsGet /\ last.inum = None
    /\ last.was_filled /\ ~last.was_touched
    /\ last.lifted = <<>>
    /\ Len(last.val) = 2
    /\ \E k \in DOMAIN items : k[1] # last.addr

\* C6: get_insn(addr, subindex) on a store miss, with no Reader configured or
\* with addr outside what the Reader maps, fails with a read failure carrying
\* addr, does not invoke the Lifter and leaves the store unchanged.
C6_ReadFailure ==
    (/\ LastIsGet
     /\ StoreMiss(last.before, last.addr, last.inum)
     /\ ~ReaderMaps(last.addr)) =>
        /\ last.exc = Some(<<"ReadError", last.addr>>)
        /\ last.lifted = <<>>
        /\ items = last.before

\* a get_insn with a Reader that does not map addr has failed on a store
\* that holds a record of addr but not the whole expansion
C6_Witness ==
    /\ LastIsGet
    /\ reader # None /\ ~ReaderMaps(last.addr)
    /\ ~NoRecordAt(last.before, last.addr)
    /\ last.exc = Some(<<"ReadError", last.addr>>)

\* ------------------------------------------------------------------------
\* class BasicBlock
\* ------------------------------------------------------------------------
SeqLast(s) == s[Len(s)]

\* BasicBlock.__init__
BasicBlock(il) ==
    [insn_list |-> il, first |-> il[1], last |-> SeqLast(il),
     addr |-> il[1].addr, inum |-> il[1].inum,
     size |-> SeqLast(il).addr + SeqLast(il).size[1] - il[1].addr]

\* BasicBlock.get_successors
BasicBlock_get_successors(self) == <<Insn_next(self.last), Insn_jcc_loc(self.last)>>

\* ------------------------------------------------------------------------
\* class CfgParser over a storage st = [kind, items, reader, code]: kind is
\* "CodeStorageMem" or "CodeStorageTranslator". Calls return [exc, val, items].
\* ------------------------------------------------------------------------
\* CfgParser.get_insn: self.storage.get_insn(addr, inum)
CfgParser_get_insn(st, addr, inum) ==
    IF st.kind = "CodeStorageMem"
    THEN Tr_result(Mem_get_insn(st.items, addr, inum), st.items, <<>>)
    ELSE Tr_get_insn(st.items, st.reader, st.code, addr, inum)

RECURSIVE CfgParser__get_bb_loop(_, _, _)

\* the while loop of CfgParser._get_bb after ret += insn_list: its is the
\* store by now
CfgParser__get_bb_extended(st, addr, il, its) ==
    IF have_flag(SeqLast(il), IOPT_BB_END)
    THEN [exc |-> None, val |-> il, items |-> its]
    ELSE CfgParser__get_bb_loop([st EXCEPT !.items = its],
                                addr + SeqLast(il).size[1], il)

\* one turn of the while loop of CfgParser._get_bb, r being what
\* self.get_insn(addr) gave
CfgParser__get_bb_turn(st, addr, acc, r) ==
    IF r.exc # None THEN [exc |-> r.exc, val |-> None, items |-> r.items]
    ELSE CfgParser__get_bb_extended(st, addr, acc \o r.val, r.items)

\* the while loop of CfgParser._get_bb
CfgParser__get_bb_loop(st, addr, acc) ==
    CfgParser__get_bb_turn(st, addr, acc, CfgParser_get_insn(st, addr, None))

\* CfgParser._get_bb
CfgParser__get_bb(st, addr) == CfgParser__get_bb_loop(st, addr, <<>>)

\* the for loop of CfgParser.get_bb over insn_list[inum:]: the position of
\* the first BB_END instruction at or after position i (1-based), or 0
RECURSIVE FirstBBEnd(_, _)
FirstBBEnd(il, i) ==
    IF i > Len(il) THEN 0
    ELSE IF have_flag(il[i], IOPT_BB_END) THEN i
    ELSE FirstBBEnd(il, i + 1)

\* CfgParser.get_bb after _get_bb returned il: the block that ends at
\* position e, None when the loop falls through (e = 0)
CfgParser_get_bb_upto(il, inum, e, its) ==
    [exc |-> None,
     val |-> IF e = 0 THEN None ELSE Some(BasicBlock(SubSeq(il, inum + 1, e))),
     items |-> its]

\* CfgParser.get_bb, r being what self._get_bb(addr) gave
CfgParser_get_bb_from(r, inum) ==
    IF r.exc # None THEN r
    ELSE CfgParser_get_bb_upto(r.val, inum, FirstBBEnd(r.val, inum + 1), r.items)

\* CfgParser.get_bb(addr, inum)
CfgParser_get_bb(st, addr, inum) ==
    CfgParser_get_bb_from(CfgParser__get_bb(st, addr), inum)

RECURSIVE CfgParser_map_get_bb(_, _, _)

\* one turn of the final map of traverse, r being what get_bb gave
CfgParser_map_get_bb_turn(st, keys, acc, r) ==
    IF r.exc # None THEN r
    ELSE CfgParser_map_get_bb([st EXCEPT !.items = r.items], Tail(keys),
                              Append(acc, r.val))

\* the final map of traverse: get_bb over the node keys, in order
CfgParser_map_get_bb(st, keys, acc) ==
    IF keys = <<>> THEN [exc |-> None, val |-> acc, items |-> st.items]
    ELSE CfgParser_map_get_bb_turn(st, keys, acc,
                                   CfgParser_get_bb(st, Head(keys)[1], Head(keys)[2]))

InSeq(x, s) == \E i \in 1 .. Len(s) : s[i] = x

\* _stack_push of traverse, pushing whether or not the node was visited
stack_push_unchecked(stk, nds, addr, inum) == Append(stk, addr)

\* _stack_push of traverse that pushes nothing
stack_push_dropped(stk, nds, addr, inum) == stk

\* _stack_push of traverse
stack_push(stk, nds, addr, inum) ==
    IF ~InSeq(<<addr, inum>>, nds) THEN Append(stk, addr) ELSE stk

\* what self.process_node(bb) can give, by the class of self: the base class
\* returns True, a subclass may return anything, and the method of
\* CodeStorageTranslator._CfgParser is declared without self, so that the
\* bound call raises TypeError
process_node(cls) ==
    IF cls = "CfgParser" THEN {"True"}
    ELSE IF cls = "_CfgParser" THEN {"TypeError"}
    ELSE {"True", "False"}

\* what self.process_edge(bb_from, bb_to) can give; _CfgParser inherits the
\* method of the base class
process_edge(cls) ==
    IF cls \in {"CfgParser", "_CfgParser"} THEN {"True"} ELSE {"True", "False"}

\* `if v not in nodes` of _process_node, never true
NodeUnvisited_always(v, nds) == TRUE

\* `if v not in nodes` of _process_node
NodeUnvisited(v, nds) == ~InSeq(v, nds)

\* `if e not in edges` of _process_edge
EdgeUnvisited(e, eds) == ~InSeq(e, eds)

\* `if not _process_node(bb): return False`
NodeVisitorStops(res) == res = "False"

\* `if not _process_edge(...)` that never returns False
EdgeVisitorStops_never(res) == FALSE

\* `if not _process_edge(bb, ...): return False`
EdgeVisitorStops(res) == res = "False"

\* the fallthrough edge handled ahead of the branch-target edge
EdgeOrder_next_first == <<"next", "jcc">>

\* the order in which traverse handles the two successors of a terminator:
\* rhs = insn.jcc_loc() first, lhs = insn.next() second
EdgeOrder == <<"jcc", "next">>

\* ------------------------------------------------------------------------
\* Spec: CfgParser.traverse(start) over a program of NumAddr one-byte
\* machine instructions at addresses 0 .. NumAddr - 1
\* ------------------------------------------------------------------------
NumAddr == 3

TravAddrs == 0 .. (NumAddr - 1)

\* where the jumps of a program go: back to its first instruction or on
\* to its last
JumpTargets == {0, NumAddr - 1}

\* where traverse starts
StartAddrs == {0, 1}

\* the shapes a machine instruction of a program can take
Shapes ==
    {<<"plain", 0>>, <<"ret", 0>>}
    \cup {<<k, t>> : k \in {"jcc", "jmp", "split"}, t \in JumpTargets}
    \cup {<<"jmpsplit", NumAddr - 1>>}

Expansion(sh, a) ==
    IF sh[1] = "plain" THEN T_plain(a)
    ELSE IF sh[1] = "ret" THEN T_ret(a)
    ELSE IF sh[1] = "jcc" THEN T_jcc(a, sh[2])
    ELSE IF sh[1] = "jmp" THEN T_jmp(a, sh[2])
    ELSE IF sh[1] = "jmpsplit" THEN T_jmpsplit(a, sh[2])
    ELSE T_split(a, sh[2])

Programs == [TravAddrs -> Shapes]

CodeOf(p) == [a \in TravAddrs |-> Expansion(p[a], a)]

RECURSIVE StoreFrom(_, _, _)
StoreFrom(p, a, its) ==
    IF a \notin TravAddrs THEN its
    ELSE StoreFrom(p, a + 1, Mem_put_insn(its, [list |-> TRUE, v |-> Expansion(p[a], a)]))

\* a CodeStorageMem holding the whole program
StoreOf(p) == StoreFrom(p, 0, <<>>)

NoRet == [kind |-> "none", val |-> <<>>]

\* no traversal is running yet
Init ==
    /\ mode = "idle" /\ start = 0
    /\ items = <<>> /\ code = <<>> /\ reader = None
    /\ stack = <<>> /\ stack_top = 0
    /\ nodes = <<>> /\ edges = <<>>
    /\ insn_list = <<>> /\ bb = <<>> /\ idx = 0
    /\ pc = "idle" /\ ret = NoRet
    /\ calls = <<>> /\ pops = 0 /\ func_list = <<>> /\ steps = 0
    /\ IdlePure /\ IdleCache

\* a parser of class cls is built over a storage holding program p and
\* traverse(addr) is entered: stack, nodes, edges = [], [], [];
\* stack_top = addr. A CfgParser or a subclass of it runs over a
\* CodeStorageMem that holds p; get_func runs its _CfgParser over the
\* translator, whose store is empty and whose Reader maps the program.
Traverse(cls, p, addr) ==
    /\ pc = "idle"
    /\ mode' = cls
    /\ start' = addr
    /\ items' = IF cls = "_CfgParser" THEN <<>> ELSE StoreOf(p)
    /\ code' = IF cls = "_CfgParser" THEN CodeOf(p) ELSE <<>>
    /\ reader' = IF cls = "_CfgParser" THEN Some([addr |-> 0, len |-> NumAddr]) ELSE None
    /\ stack' = <<>> /\ stack_top' = addr
    /\ nodes' = <<>> /\ edges' = <<>>
    /\ pc' = "get_bb"
    /\ UNCHANGED <<insn_list, bb, idx, ret, calls, pops, func_list>>
    /\ UNCHANGED <<pureVars, cacheVars>>
    /\ steps' = 0

\* the storage the parser was built over: get_func builds a _CfgParser over
\* the CodeStorageTranslator itself
TravStorage ==
    [kind |-> IF mode = "_CfgParser" THEN "CodeStorageTranslator" ELSE "CodeStorageMem",
     items |-> items, reader |-> reader, code |-> code]

RaisedRet(exc) == [kind |-> "exc", val |-> exc]

\* insn_list = self._get_bb(stack_top); bb = []
GetBB ==
    /\ pc = "get_bb"
    /\ \E r \in {CfgParser__get_bb(TravStorage, stack_top)} :
        /\ items' = r.items
        /\ IF r.exc # None
           THEN /\ pc' = "raised"
                /\ ret' = RaisedRet(r.exc[1])
                /\ UNCHANGED <<insn_list, bb, idx>>
           ELSE /\ insn_list' = r.val
                /\ bb' = <<>>
                /\ idx' = 1
                /\ pc' = "loop"
                /\ UNCHANGED ret
    /\ UNCHANGED <<mode, start, stack, stack_top, nodes, edges, calls, pops, func_list>>
    /\ UNCHANGED <<reader, code, pureVars, cacheVars>>
    /\ steps' = steps + 1

\* one turn of `for insn in insn_list` up to the BB_END test
LoopStep ==
    /\ pc = "loop"
    /\ idx <= Len(insn_list)
    /\ bb' = Append(bb, insn_list[idx])
    /\ IF have_flag(insn_list[idx], IOPT_BB_END)
       THEN pc' = "node" /\ idx' = idx
       ELSE pc' = "loop" /\ idx' = idx + 1
    /\ UNCHANGED <<mode, start, stack, stack_top, nodes, edges, insn_list, ret,
                   calls, pops, func_list>>
    /\ UNCHANGED <<storeVars, pureVars, cacheVars>>
    /\ steps' = steps + 1

\* if not _process_node(bb): return False
ProcessNode ==
    /\ pc = "node"
    /\ LET v == <<bb[1].addr, bb[1].inum>> IN
        IF NodeUnvisited(v, nodes)
        THEN /\ nodes' = Append(nodes, v)
             /\ \E res \in process_node(mode) :
                 /\ calls' = Append(calls, [kind |-> "node", from |-> v, to |-> v,
                                            res |-> res, pops |-> pops,
                                            lhs |-> Insn_next(SeqLast(bb)),
                                            rhs |-> Insn_jcc_loc(SeqLast(bb))])
                 /\ IF res = "TypeError"
                    THEN pc' = "raised" /\ ret' = RaisedRet(<<"TypeError", v[1]>>)
                    ELSE IF NodeVisitorStops(res)
                    THEN pc' = "done" /\ ret' = [kind |-> "False", val |-> <<>>]
                    ELSE pc' = "edge1" /\ UNCHANGED ret
        ELSE /\ pc' = "edge1"
             /\ UNCHANGED <<nodes, calls, ret>>
    /\ UNCHANGED <<mode, start, stack, stack_top, edges, insn_list, bb, idx, pops,
                   func_list>>
    /\ UNCHANGED <<storeVars, pureVars, cacheVars>>
    /\ steps' = steps + 1

\* the k-th of the two successor steps of a terminator:
\*   if target is not None:
\*       if not _process_edge(bb, target): return False
\*       _stack_push(*target)
\* after the second one, bb = [] and the for loop goes on
ProcessEdge(k) ==
    /\ pc = (IF k = 1 THEN "edge1" ELSE "edge2")
    /\ LET target == IF EdgeOrder[k] = "jcc" THEN Insn_jcc_loc(SeqLast(bb))
                     ELSE Insn_next(SeqLast(bb))
           from == <<bb[1].addr, bb[1].inum>>
           goon == /\ pc' = (IF k = 1 THEN "edge2" ELSE "loop")
                   /\ bb' = (IF k = 1 THEN bb ELSE <<>>)
                   /\ idx' = (IF k = 1 THEN idx ELSE idx + 1)
       IN
        IF target = None
        THEN goon /\ UNCHANGED <<edges, calls, ret, stack, items>>
        ELSE
            LET to == target[1]
                e == <<from, to>>
            IN
            IF EdgeUnvisited(e, edges)
            THEN /\ edges' = Append(edges, e)
                 /\ \E r \in {CfgParser_get_bb(TravStorage, to[1], to[2])} :
                     /\ items' = r.items
                     /\ IF r.exc # None
                        THEN /\ pc' = "raised"
                             /\ ret' = RaisedRet(r.exc[1])
                             /\ UNCHANGED <<calls, stack, bb, idx>>
                        ELSE \E res \in process_edge(mode) :
                             /\ calls' = Append(calls, [kind |-> "edge", from |-> from,
                                                        to |-> to, res |-> res,
                                                        pops |-> pops,
                                                        lhs |-> Insn_next(SeqLast(bb)),
                                                        rhs |-> Insn_jcc_loc(SeqLast(bb))])
                             /\ IF EdgeVisitorStops(res)
                                THEN /\ pc' = "done"
                                     /\ ret' = [kind |-> "False", val |-> <<>>]
                                     /\ UNCHANGED <<stack, bb, idx>>
                                ELSE /\ stack' = stack_push(stack, nodes, to[1], to[2])
                                     /\ goon
                                     /\ UNCHANGED ret
            ELSE /\ stack' = stack_push(stack, nodes, to[1], to[2])
                 /\ goon
                 /\ UNCHANGED <<edges, calls, ret, items>>
    /\ UNCHANGED <<mode, start, stack_top, nodes, insn_list, pops, func_list>>
    /\ UNCHANGED <<reader, code, pureVars, cacheVars>>
    /\ steps' = steps + 1

\* try: stack_top = stack.pop()
Pop ==
    /\ pc = "loop"
    /\ idx > Len(insn_list)
    /\ stack # <<>>
    /\ stack_top' = SeqLast(stack)
    /\ stack' = SubSeq(stack, 1, Len(stack) - 1)
    /\ pops' = pops + 1
    /\ pc' = "get_bb"
    /\ UNCHANGED <<mode, start, nodes, edges, insn_list, bb, idx, ret, calls, func_list>>
    /\ UNCHANGED <<storeVars, pureVars, cacheVars>>
    /\ steps' = steps + 1

\* except IndexError: break; return map(lambda bb: self.get_bb(*bb), nodes).
\* Under get_func the caller drops that list and returns cfg.insn_list.
Finish ==
    /\ pc = "loop"
    /\ idx > Len(insn_list)
    /\ stack = <<>>
    /\ \E r \in {CfgParser_map_get_bb(TravStorage, nodes, <<>>)} :
        /\ items' = r.items
        /\ IF r.exc # None
           THEN pc' = "raised" /\ ret' = RaisedRet(r.exc[1])
           ELSE /\ pc' = "done"
                /\ ret' = IF mode = "_CfgParser"
                          THEN [kind |-> "insn_list", val |-> func_list]
                          ELSE [kind |-> "list", val |-> r.val]
    /\ UNCHANGED <<mode, start, stack, stack_top, nodes, edges, insn_list, bb, idx,
                   calls, pops, func_list>>
    /\ UNCHANGED <<reader, code, pureVars, cacheVars>>
    /\ steps' = steps + 1

\* traverse is entered with any parser class, program and start address
Enter ==
    /\ pc = "idle"
    /\ \E cls \in {"CfgParser", "subclass", "_CfgParser"}, p \in Programs, addr \in StartAddrs :
            Traverse(cls, p, addr)

Next ==
    \/ Enter
    \/ GetBB \/ LoopStep \/ ProcessNode \/ ProcessEdge(1) \/ ProcessEdge(2) \/ Pop \/ Finish

Spec == Init /\ [][Next]_vars

\* ------------------------------------------------------------------------
\* Properties of the traversal
\* ------------------------------------------------------------------------
Terminated == pc \in {"done", "raised"}

CallIdx == 1 .. Len(calls)

NodeCalls(v) == {i \in CallIdx : calls[i].kind = "node" /\ calls[i].from = v}

EdgeCalls(f, t) ==
    {i \in CallIdx : calls[i].kind = "edge" /\ calls[i].from = f /\ calls[i].to = t}

\* the block that starts at node key v, as get_bb materializes it
BlockAt(v) == CfgParser_get_bb(TravStorage, v[1], v[2]).val[1]

\* C1: during one traverse, process_node is invoked at most once per node
\* key and process_edge at most once per edge key, in every reachable state,
\* aborted runs included.
C1_AtMostOnce ==
    \A i \in CallIdx : \A j \in CallIdx :
        (/\ calls[i].kind = calls[j].kind
         /\ calls[i].from = calls[j].from
         /\ calls[i].to = calls[j].to) => i = j

\* a traversal has finished in which some run walked only blocks that were
\* visited before (the stack held an address more than once)
C1_Witness ==
    /\ pc = "done" /\ ret.kind = "list"
    /\ pops >= Len(nodes)
    /\ Len(edges) >= 2

\* C3: a negative visitor result stops the traversal at once: it is the last
\* visitor invocation, nothing was popped after it, and traverse has
\* returned False.
C3_StopsAtOnce ==
    \A i \in CallIdx :
        calls[i].res = "False" =>
            /\ i = Len(calls)
            /\ pops = calls[i].pops
            /\ pc = "done"
            /\ ret.kind = "False"

\* an edge visitor has refused while addresses were still on the stack and
\* the terminator's other successor was still to be handled
C3_Witness ==
    /\ pc = "done" /\ ret.kind = "False"
    /\ Len(calls) >= 3
    /\ calls[Len(calls)].kind = "edge"
    /\ stack # <<>>

\* C10: for a terminator with both a branch-target and a fallthrough
\* successor, the edge visitor call for the branch-target edge precedes the
\* one for the fallthrough edge, and the node visitor call for the source
\* block precedes both. (When both successors are the same node there is one
\* edge key and one call.)
C10_BranchBeforeFallthrough ==
    \A j \in CallIdx :
        calls[j].kind = "edge" =>
            /\ \E i \in 1 .. (j - 1) :
                   calls[i].kind = "node" /\ calls[i].from = calls[j].from
            /\ (/\ calls[j].rhs # None /\ calls[j].lhs # None
                /\ calls[j].rhs # calls[j].lhs
                /\ calls[j].to = calls[j].lhs[1]) =>
                   \E i \in 1 .. (j - 1) :
                       /\ calls[i].kind = "edge"
                       /\ calls[i].from = calls[j].from
                       /\ calls[i].to = calls[j].rhs[1]

\* both edges of one conditional jump have been handed to the edge visitor
C10_Witness ==
    \E i \in CallIdx : \E j \in CallIdx :
        /\ i < j
        /\ calls[i].kind = "edge" /\ calls[j].kind = "edge"
        /\ calls[i].from = calls[j].from
        /\ calls[i].to # calls[j].to
        /\ calls[i].to = calls[i].rhs[1]
        /\ calls[j].to = calls[j].lhs[1]

\* every first walk of a run pushes at most two addresses per block end, a
\* run from address x holds at most NumAddr - x block ends, and a repeated
\* walk pushes nothing
PopBound == NumAddr * (NumAddr + 1)

\* a run takes one step for _get_bb, one per instruction, three per block
\* end and one for the pop or the return
StepBound == (PopBound + 1) * (5 * NumAddr + 2)

\* the node keys the terminator of block blk leads to
SuccKeys(blk) ==
    {t[1] : t \in {Insn_jcc_loc(blk.last), Insn_next(blk.last)} \ {None}}

\* C2: on a store whose graph has a cycle (block B branches back to an
\* earlier block A) traverse with accepting visitors terminates: the number
\* of pops and of steps is bounded, it raises only on an instruction missing
\* from the store, and when it returns its list the stack is empty, A and B
\* were each node-visited exactly once and each edge between them was
\* edge-visited exactly once.
C2_TerminatesOnCycle ==
    /\ pops <= PopBound
    /\ steps <= StepBound
    /\ (pc = "raised" /\ mode # "_CfgParser") =>
           /\ ret.val[1] = "KeyError"
           /\ StoreMiss(items, ret.val[2], None)
    /\ (pc = "done" /\ ret.kind = "list") =>
           /\ stack = <<>>
           /\ Len(ret.val) = Len(nodes)
           /\ \A j \in 1 .. Len(nodes) : \A i \in 1 .. j :
                  Insn_jcc_loc(ret.val[j][1].last) = Some(nodes[i]) =>
                      /\ Cardinality(NodeCalls(nodes[i])) = 1
                      /\ Cardinality(NodeCalls(nodes[j])) = 1
                      /\ Cardinality(EdgeCalls(nodes[j], nodes[i])) = 1
                      /\ nodes[j] \in SuccKeys(ret.val[i][1]) =>
                             Cardinality(EdgeCalls(nodes[i], nodes[j])) = 1

\* a traversal has returned its list on a store where a later block B
\* branches back to the earlier block A and A leads to B
C2_Witness ==
    /\ pc = "done" /\ ret.kind = "list"
    /\ pops >= 2
    /\ \E j \in 1 .. Len(nodes) : \E i \in 1 .. (j - 1) :
           /\ Insn_jcc_loc(ret.val[j][1].last) = Some(nodes[i])
           /\ nodes[j] \in SuccKeys(ret.val[i][1])

\* the instructions of the blocks that start at the node keys nds, block
\* after block
RECURSIVE FlatInsns(_)
FlatInsns(nds) ==
    IF nds = <<>> THEN <<>>
    ELSE BlockAt(nds[1]).insn_list \o FlatInsns(Tail(nds))

\* the run ended because the storage could not produce an instruction
StorageFailed == pc = "raised" /\ ret.val[1] \in {"ReadError", "KeyError"}

\* C5: get_func(addr) traverses from addr over the cache and returns one
\* flat sequence holding the instructions of every block the traversal
\* visits, each block once, in visit order: whenever the storage can
\* produce every instruction asked for, the call returns and its result is
\* the concatenation of the visited blocks, the block at (addr, 0) first.
C5_GetFuncCollects ==
    (mode = "_CfgParser" /\ Terminated /\ ~StorageFailed) =>
        /\ pc = "done"
        /\ ret.kind = "insn_list"
        /\ Len(nodes) >= 1
        /\ nodes[1] = <<start, 0>>
        /\ ret.val = FlatInsns(nodes)

\* traverse has returned its list
Finished == pc = "done" /\ ret.kind = "list"

NodeIdx == 1 .. Len(nodes)

\* the node keys the traversal visited
NodeSet == {nodes[i] : i \in NodeIdx}

\* the block the returned list holds for the i-th visited node
ListedBlock(i) == ret.val[i][1]

\* the positions of the visited nodes that successor edges lead to from the
\* positions in S
RECURSIVE ReachIdx(_)
ReachIdx(S) ==
    LET T == S \cup {j \in NodeIdx :
                        \E i \in S : nodes[j] \in SuccKeys(ListedBlock(i))}
    IN  IF T = S THEN S ELSE ReachIdx(T)

\* the visited nodes reachable from (start, 0) through branch-target and
\* fallthrough edges
Reachable == {nodes[j] : j \in ReachIdx({i \in NodeIdx : nodes[i] = <<start, 0>>})}

\* (start, 0) is visited and every successor key of a visited block's
\* terminator is a visited node
Closed ==
    /\ <<start, 0>> \in NodeSet
    /\ \A i \in NodeIdx : SuccKeys(ListedBlock(i)) \subseteq NodeSet

\* the returned list holds one block per visited node, the block that
\* starts at that node, and no node twice
OneBlockEach ==
    /\ Len(ret.val) = Len(nodes)
    /\ \A i \in NodeIdx :
           /\ ret.val[i] # None
           /\ <<ListedBlock(i).addr, ListedBlock(i).inum>> = nodes[i]
           /\ \A j \in NodeIdx : nodes[i] = nodes[j] => i = j

\* how the walk came to the j-th visited node: it is the start node, or a
\* successor of a visited block's terminator, or subindex 0 of an address
\* that such a successor lies at (the stack holds addresses only and a walk
\* begins at subindex 0), or the instruction after a visited block's
\* terminator inside the same expansion (the walk goes on past a block end)
Discovered(j) ==
    \/ nodes[j] = <<start, 0>>
    \/ \E i \in NodeIdx : nodes[j] \in SuccKeys(ListedBlock(i))
    \/ /\ nodes[j][2] = 0
       /\ \E i \in NodeIdx : \E t \in SuccKeys(ListedBlock(i)) : t[1] = nodes[j][1]
    \/ \E i \in NodeIdx :
           /\ ~have_flag(ListedBlock(i).last, IOPT_ASM_END)
           /\ nodes[j] = <<ListedBlock(i).last.addr, ListedBlock(i).last.inum + 1>>

\* C11 as stated: when traverse returns its list, (start, 0) is visited, the
\* visited nodes are closed under the successors of their terminators, and
\* the list holds exactly one block for every block reachable from start and
\* nothing else.
C11_AsStated ==
    Finished => (Closed /\ OneBlockEach /\ NodeSet = Reachable)

\* C11 amended: when traverse returns its list, (start, 0) is visited, the
\* visited nodes are closed under the successors of their terminators, the
\* list holds exactly one block per visited node, every block reachable from
\* start is among them, and every visited node is the start node, a
\* successor of a visited block, subindex 0 of the address of such a
\* successor, or the instruction that follows a visited block's terminator
\* inside its expansion.
C11_ClosedUnderSuccessors ==
    Finished =>
        /\ Closed
        /\ OneBlockEach
        /\ Reachable \subseteq NodeSet
        /\ \A j \in NodeIdx : Discovered(j)

\* a traversal has returned a list of at least three blocks, one of them
\* reached by a pop, and one of them not reachable from start through
\* successor edges
C11_Witness ==
    /\ Finished
    /\ Len(nodes) >= 3
    /\ pops >= 1
    /\ NodeSet # Reachable
    /\ Cardinality(Reachable) >= 2

====
